---- MODULE Spec2Model ----
(***************************************************************************)
(* The progressive content-indexing pipeline of guimera-p4:                *)
(*   - ProgressiveIndexer (progressive-indexer.js) and FirecrawlIndexer    *)
(*     (firecrawl-indexer.js): one indexing run as a sequential process;   *)
(*   - SimpleIndexingReporter (monitoring/simple-reporter.js): the event   *)
(*     log the indexers write to;                                          *)
(*   - IndexingTracker (monitoring/indexing-tracker.js): the session       *)
(*     table, driven through its public API.                               *)
(* Costs are in micro-dollars, so that estimateCost stays an integer.      *)
(***************************************************************************)
EXTENDS Integers, Sequences, FiniteSets, TLC

\* ---------------------------------------------------------------- bounds
NumUrls == 2
MaxLinks == 3
MaxChunks == 2
MaxRetryAttempts == 2
MaxBatchSize == 2
MaxBudgetChunks == 2
MaxTrackerCalls == 4
NumTrackerUrls == 2
MaxDiscoverLen == 2
MaxRuns == 2
MaxTriggers == 2
MaxTriggerPages == 5
MaxSample == 3
NumWords == 7
NumQaUrls == 2
MaxWordCount == 4       \* words of a chunk handed to assessContentQuality
MaxSentences == 5       \* sentences of such a chunk
NumQueries == 2         \* queries of the relevance panel (8 in the source)
MaxQaRuns == 2          \* calls of runCompleteQA on one validator
MaxReporterCalls == 4   \* calls a client makes on one SimpleIndexingReporter
MaxFrontier == 14       \* URLs of a frontier handed to createBatches
MaxAttemptCeiling == 5   \* retryAttempts of a run whose waits are listed
MaxUpdateCalls == 3      \* performContentUpdate calls made on one scheduler

\* ------------------------------------------------------ program constants
TokensPerChunk == 500
CostPer1kTokensMicro == 130
PagesPerMinute == 4
SimilarityThresholdPct == 85
MinChunkLength == 50    \* thresholds.minChunkLength
MaxChunkLength == 2000  \* thresholds.maxChunkLength
FullScore == 10         \* the score 1.0, counted in tenths
EmbeddingDimensions == 3072  \* dimensions of an embedding vector
RetryBaseDelayMs == 2000     \* milliseconds waited per attempt already made
DefaultMaxPages == 100       \* maxPages of a run started without PHASE1_MAX_PAGES

Urls == 1..NumUrls
\* null, for a session id and for a time
NoSession == <<>>
NoTime == 0 - 1
SessionId == "guimera-session"

Min(a, b) == IF a < b THEN a ELSE b

\* Time is not tracked during an indexing run: no record made there carries a
\* timestamp that is read back.
RunClock == 0

VARIABLES
  kind,          \* which indexer class runs: "progressive" or "firecrawl"
  options,       \* this.options
  links,         \* hrefs found on the home page / the Firecrawl map results
  pc,            \* position of the run inside executePhase1
  usePlaywright, \* executePhase1's local flag
  urls,          \* the discovered frontier
  content,       \* SimpleScraper's content items (fallback path), one url per chunk
  batches,       \* processBatches' local
  bi,            \* processBatches' loop index (1-based)
  ui,            \* processBatch's loop index (1-based); fallback loop index
  attempt,       \* processUrl's attempt parameter
  stats,         \* this.stats
  processedUrls, \* this.processedUrls
  data,          \* reporter.data
  embedCalls,    \* number of calls made to the paid embedding service
  indexCalls,    \* url -> number of index.upsert calls
  tries,         \* the url last handed to processUrl and the outcomes of its attempts (history)
  breached,      \* the budget check of processBatches took its break (history)
  tracker,       \* IndexingTracker.state
  tenv,          \* the tracker's environment: clock, number of API calls made, history
  pinecone,      \* the vector index: id -> url of the stored entry
  senv,          \* the vector store's environment: clock, pages, calls made (history)
  server,        \* the HTTP server process: which route file, up or crashed, clock,
                 \* analyticsData.contentUpdates
  jobs,          \* the trigger requests received: response sent, background task, child process
  matches,       \* the chunks the vector index returns to the QA sample query
  results,       \* QualityAssuranceValidator.results
  qpc,           \* position of runCompleteQA
  qenv,          \* the QA validator's environment: run number, report returned by the
                 \* first run, operations issued on the vector index (history)
  arg,           \* the argument a function under study is applied to
  ret,           \* what it returned
  ppc,           \* "ready" before the call, "returned" after it
  renv,          \* the reporter API's environment: clock, calls made, reports
                 \* generated, reports exported to a file
  earlier,       \* the number of indexer runs that are over and the URLs they brought
                 \* to status indexed (history)
  scheduler      \* the RAGSystemScheduler: isProcessing, updateLog, and the
                 \* performContentUpdate calls made on it with their positions

indexerVars == <<kind, options, links, pc, usePlaywright, urls, content, batches,
                 bi, ui, attempt, stats, processedUrls, data, embedCalls,
                 indexCalls, tries, breached>>
trackerVars == <<tracker, tenv>>
storeVars == <<pinecone, senv>>
triggerVars == <<server, jobs>>
qaVars == <<matches, results, qpc, qenv>>
pureVars == <<arg, ret, ppc>>
extraVars == <<pureVars, renv, earlier, scheduler>>
sideVars == <<storeVars, triggerVars, qaVars, extraVars>>
vars == <<kind, options, links, pc, usePlaywright, urls, content, batches,
          bi, ui, attempt, stats, processedUrls, data, embedCalls,
          indexCalls, tries, breached, tracker, tenv, pinecone, senv, server, jobs,
          matches, results, qpc, qenv, arg, ret, ppc, renv, earlier, scheduler>>

\* ------------------------------------------------------- pure functions

\* Array.prototype.indexOf (1-based; 0 when absent)
IndexOf(s, x) ==
  IF \E i \in 1..Len(s) : s[i] = x
    THEN CHOOSE i \in 1..Len(s) : s[i] = x /\ \A j \in 1..(i - 1) : s[j] # x
    ELSE 0

\* Array.prototype.slice(0, n)
SliceTo(s, n) == SubSeq(s, 1, Min(n, Len(s)))

\* .filter((href, index, arr) => arr.indexOf(href) === index)
RECURSIVE UniqueFrom(_, _)
UniqueFrom(s, i) ==
  IF i > Len(s) THEN <<>>
  ELSE (IF IndexOf(s, s[i]) = i THEN <<s[i]>> ELSE <<>>) \o UniqueFrom(s, i + 1)

UniqueLinks(s) == UniqueFrom(s, 1)

\* estimateCost(chunks), in micro-dollars
estimateCost(nChunks) == (nChunks * TokensPerChunk * CostPer1kTokensMicro) \div 1000

\* createBatches(array, batchSize); i is the 0-based loop variable
RECURSIVE createBatchesFrom(_, _, _)
createBatchesFrom(array, batchSize, i) ==
  IF i >= Len(array) THEN <<>>
  ELSE <<SubSeq(array, i + 1, Min(i + batchSize, Len(array)))>>
         \o createBatchesFrom(array, batchSize, i + batchSize)

\* (createBatchesNewestFirst batches the frontier from its end: last discovered, first processed)
createBatchesNewestFirst(array, batchSize) ==
  createBatchesFrom([i \in 1..Len(array) |-> array[Len(array) + 1 - i]], batchSize, 0)

createBatches(array, batchSize) == createBatchesFrom(array, batchSize, 0)

\* new Array(3072).fill(0), as its length and whether all its elements are 0
ZeroVector == [dimensions |-> EmbeddingDimensions, zero |-> TRUE]

\* a vector the embedding service returned
ModelVector == [dimensions |-> EmbeddingDimensions, zero |-> FALSE]

createEmbeddingsAlwaysPaid(testMode, nChunks) ==
  [paidCalls |-> 1, embeddings |-> [i \in 1..nChunks |-> ModelVector]]

\* createEmbeddings(chunks, url) when nothing throws: the number of calls made
\* to openai.embeddings.create and the vectors returned, one per chunk
createEmbeddings(testMode, nChunks) ==
  IF testMode
    THEN [paidCalls |-> 0, embeddings |-> [i \in 1..nChunks |-> ZeroVector]]
    ELSE [paidCalls |-> 1, embeddings |-> [i \in 1..nChunks |-> ModelVector]]

\* SimpleIndexingReporter.categorizeError on a defined message, given as the
\* set of keywords the lower-cased message includes
categorizeError(message) ==
  IF "timeout" \in message THEN "timeout"
  ELSE IF "404" \in message \/ "not found" \in message THEN "not_found"
  ELSE IF "403" \in message \/ "forbidden" \in message THEN "forbidden"
  ELSE IF "robots" \in message THEN "robots_blocked"
  ELSE IF "duplicate" \in message THEN "duplicate"
  ELSE IF "quality" \in message THEN "low_quality"
  ELSE IF "network" \in message THEN "network"
  ELSE IF "parse" \in message THEN "parsing"
  ELSE "unknown"

\* SimpleIndexingReporter.recordSession
recordSession(d, sessionData) ==
  [d EXCEPT !.sessions = Append(@, [sessionId |-> sessionData.sessionId,
                                    status |-> sessionData.status,
                                    endTime |-> sessionData.endTime])]

\* SimpleIndexingReporter.recordUrl
recordUrl(d, url, status) ==
  [d EXCEPT !.urls = Append(@, [sessionId |-> SessionId, url |-> url, status |-> status])]

\* SimpleIndexingReporter.recordError: the argument of push is built first,
\* and categorizeError(errorData.error) calls error.toLowerCase(), which throws
\* a TypeError when the caller gave no `error` field.
recordError(d, errorData, t) ==
  IF "error" \notin DOMAIN errorData
    THEN [threw |-> TRUE, data |-> d]
    ELSE [threw |-> FALSE,
          data |-> [d EXCEPT !.errors =
                      Append(@, [sessionId |-> SessionId,
                                 url |-> errorData.url,
                                 error |-> errorData.error,
                                 errorType |-> categorizeError(errorData.error),
                                 timestamp |-> t,
                                 attempt |-> 1])]]

\* the errorData every call site of the two indexers builds:
\* { sessionId, errorType, message, url } -- no `error` field
IndexerErrorData(errorType, url) ==
  [errorType |-> errorType, url |-> url]

\* generateErrorsTable: this.data.errors.sort(...) sorts the log in place,
\* newest first (Array.prototype.sort is stable)
RECURSIVE InsertDesc(_, _)
InsertDesc(sorted, e) ==
  IF sorted = <<>> THEN <<e>>
  ELSE IF Head(sorted).timestamp >= e.timestamp
         THEN <<Head(sorted)>> \o InsertDesc(Tail(sorted), e)
         ELSE <<e>> \o sorted

RECURSIVE SortDesc(_)
SortDesc(s) == IF s = <<>> THEN <<>> ELSE InsertDesc(SortDesc(SubSeq(s, 1, Len(s) - 1)), s[Len(s)])

generateErrorsTable(d) == [d EXCEPT !.errors = SortDesc(@)]

\* the retry condition of processUrl's catch; processUrlWithFirecrawl just rethrows
RetryOnlyEmbedAndStore(k, outcome, att, retryAttempts) ==
  k = "progressive" /\ att < retryAttempts /\ outcome \in {"embedThrows", "storeThrows"}

ShouldRetry(k, outcome, att, retryAttempts) ==
  k = "progressive" /\ att < retryAttempts


\* --------------------------------------------------- the indexing run

BoundedSeq(S, n) == UNION {[1..k -> S] : k \in 0..n}

\* what one pass through the body of processUrl / processUrlWithFirecrawl can meet
Outcomes(testMode) ==
  IF testMode
    THEN {"ok", "gotoThrows", "extractThrows", "short", "noChunks"}
    ELSE {"ok", "gotoThrows", "extractThrows", "short", "noChunks",
          "embedThrows", "embedEmpty", "storeThrows"}

\* outcomes after which the body calls reporter.recordError and then returns false
ReturnsFalse == {"short", "noChunks", "embedEmpty"}

\* outcomes that reach the embedding service (createEmbeddings, not in testMode)
ReachesEmbedding == {"ok", "embedThrows", "embedEmpty", "storeThrows"}

ErrorTypeOf(o) ==
  CASE o = "short" -> "INSUFFICIENT_CONTENT"
    [] o = "noChunks" -> "NO_CHUNKS_CREATED"
    [] o = "embedEmpty" -> "EMBEDDING_FAILED"
    [] o = "embedThrows" -> "OPENAI_EMBEDDING_ERROR"
    [] o = "storeThrows" -> "PINECONE_INDEXING_ERROR"
    [] OTHER -> "NONE"

\* The body of processUrl for one attempt: "true", "false" or "throw", and the
\* reporter data it leaves behind.
processUrlBody(d, url, o, t) ==
  IF o = "ok" THEN [result |-> "true", data |-> d]
  ELSE IF o \in {"gotoThrows", "extractThrows"} THEN [result |-> "throw", data |-> d]
  ELSE LET r == recordError(d, IndexerErrorData(ErrorTypeOf(o), url), t)
       IN IF o \in ReturnsFalse /\ ~r.threw
            THEN [result |-> "false", data |-> r.data]
            ELSE [result |-> "throw", data |-> r.data]

IndexerInit ==
  /\ kind \in {"progressive", "firecrawl"}
  /\ options \in [maxPages : 1..NumUrls,
                  batchSize : 1..MaxBatchSize,
                  retryAttempts : IF kind = "progressive" THEN 1..MaxRetryAttempts
                                                          ELSE {1},
                  costBudget : {estimateCost(k) : k \in 1..MaxBudgetChunks},
                  testMode : BOOLEAN]
  /\ links \in (IF kind = "progressive" THEN BoundedSeq(Urls, MaxLinks)
                                        ELSE {[i \in 1..NumUrls |-> i]})
  /\ pc = "start"
  /\ usePlaywright = TRUE
  /\ urls = <<>>
  /\ content = <<>>
  /\ batches = <<>>
  /\ bi = 1
  /\ ui = 1
  /\ attempt = 1
  /\ stats = [urlsDiscovered |-> 0, urlsProcessed |-> 0, urlsSuccessful |-> 0,
              urlsFailed |-> 0, chunksCreated |-> 0, totalCost |-> 0, errors |-> 0]
  /\ processedUrls = {}
  /\ data = [sessions |-> <<>>, urls |-> <<>>, errors |-> <<>>]
  /\ embedCalls = 0
  /\ indexCalls = [u \in Urls |-> 0]
  /\ tries = [url |-> 0, log |-> <<>>]
  /\ breached = FALSE

\* executePhase1: reporter.initialize() and reporter.recordSession({... status: 'running'})
StartSession ==
  /\ pc = "start"
  /\ data' = recordSession(data, [sessionId |-> SessionId, status |-> "running",
                                  endTime |-> NoTime])
  /\ pc' = IF kind = "progressive" THEN "launch" ELSE "discover"
  /\ UNCHANGED <<trackerVars, sideVars, kind, options, links, usePlaywright, urls, content, batches, bi, ui,
                 attempt, stats, processedUrls, embedCalls, indexCalls, tries,
                 breached>>

\* executePhase1: playwright.chromium.launch may throw; then SimpleScraper is used
LaunchBrowser ==
  /\ pc = "launch"
  /\ \E ok \in BOOLEAN :
       /\ usePlaywright' = ok
       /\ pc' = IF ok THEN "discover" ELSE "scrape"
  /\ UNCHANGED <<trackerVars, sideVars, kind, options, links, urls, content, batches, bi, ui, attempt, stats,
                 processedUrls, data, embedCalls, indexCalls, tries, breached>>

RECURSIVE recordDiscovered(_, _, _)
recordDiscovered(d, found, i) ==
  IF i > Len(found) THEN d
  ELSE recordDiscovered(recordUrl(d, found[i], "discovered"), found, i + 1)

\* discoverPhase1Urls (dedups, then slice(0, maxPages)) and FirecrawlIndexer.discoverUrls
\* (slice only), followed by the head of processBatches / processUrlsWithFirecrawl
discoverPhase1Urls ==
  /\ pc = "discover"
  /\ \E gotoOk \in (IF kind = "progressive" THEN BOOLEAN ELSE {TRUE}) :
       IF gotoOk
         THEN LET found == IF kind = "progressive"
                             THEN SliceTo(UniqueLinks(links), options.maxPages)
                             ELSE SliceTo(links, options.maxPages)
                  bs == createBatches(found, options.batchSize)
              IN /\ urls' = found
                 /\ data' = recordDiscovered(data, found, 1)
                 /\ stats' = [stats EXCEPT !.urlsDiscovered = Len(found)]
                 /\ batches' = bs
                 /\ pc' = IF bs = <<>> THEN "report" ELSE "url"
         ELSE LET r == recordError(data, IndexerErrorData("URL_DISCOVERY_FAILED", 0), RunClock)
              IN /\ data' = r.data
                 /\ pc' = IF r.threw THEN "catch" ELSE "report"
                 /\ UNCHANGED <<urls, stats, batches>>
  /\ bi' = 1
  /\ ui' = 1
  /\ UNCHANGED <<trackerVars, sideVars, kind, options, links, usePlaywright, content, attempt, processedUrls,
                 embedCalls, indexCalls, tries, breached>>

\* processBatch: the end of one iteration of the for loop (await this.delay(1000))
NextUrl ==
  IF ui < Len(batches[bi])
    THEN /\ ui' = ui + 1
         /\ pc' = "url"
    ELSE /\ ui' = ui
         /\ pc' = "budget"

\* processBatch: the head of one iteration. (BeginUrlUnawaited is the loop without
\* its await on processUrl: the next URL of the batch is started at once.)
BeginUrlUnawaited ==
  /\ pc = "url"
  /\ LET url == batches[bi][ui]
         started == recordUrl(data, url, "processing")
     IN IF url \in processedUrls
          THEN /\ NextUrl
               /\ UNCHANGED <<data, attempt, tries>>
          ELSE /\ data' = IF ui < Len(batches[bi])
                             THEN recordUrl(started, batches[bi][ui + 1], "processing")
                             ELSE started
               /\ attempt' = 1
               /\ tries' = [url |-> url, log |-> <<>>]
               /\ pc' = "attempt"
               /\ ui' = ui
  /\ UNCHANGED <<trackerVars, sideVars, kind, options, links, usePlaywright, urls, content, batches, bi, stats,
                 processedUrls, embedCalls, indexCalls, breached>>

BeginUrl ==
  /\ pc = "url"
  /\ LET url == batches[bi][ui]
     IN IF url \in processedUrls
          THEN /\ NextUrl
               /\ UNCHANGED <<data, attempt, tries>>
          ELSE /\ data' = recordUrl(data, url, "processing")
               /\ attempt' = 1
               /\ tries' = [url |-> url, log |-> <<>>]
               /\ pc' = "attempt"
               /\ ui' = ui
  /\ UNCHANGED <<trackerVars, sideVars, kind, options, links, usePlaywright, urls, content, batches, bi, stats,
                 processedUrls, embedCalls, indexCalls, breached>>

\* One attempt of processUrl(page, url, attempt) and, when it returns or finally
\* throws, the rest of the iteration of processBatch.
processUrl ==
  /\ pc = "attempt"
  /\ \E o \in Outcomes(options.testMode), n \in 1..MaxChunks :
       LET url == batches[bi][ui]
           body == processUrlBody(data, url, o, RunClock)
           paid == ~options.testMode
       IN /\ tries' = [tries EXCEPT !.log = Append(@, o)]
          /\ embedCalls' = IF o \in ReachesEmbedding
                             THEN embedCalls + createEmbeddings(options.testMode, n).paidCalls
                             ELSE embedCalls
          /\ indexCalls' = [indexCalls EXCEPT ![url] =
                              IF paid /\ o = "ok" THEN @ + 1 ELSE @]
          /\ CASE body.result = "true" ->
                    /\ stats' = [stats EXCEPT !.chunksCreated = @ + n,
                                              !.totalCost = @ + estimateCost(n),
                                              !.urlsSuccessful = @ + 1,
                                              !.urlsProcessed = @ + 1]
                    /\ data' = recordUrl(body.data, url, "indexed")
                    /\ processedUrls' = processedUrls \cup {url}
                    /\ NextUrl
                    /\ UNCHANGED attempt
               [] body.result = "false" ->
                    /\ stats' = [stats EXCEPT !.urlsFailed = @ + 1,
                                              !.urlsProcessed = @ + 1]
                    /\ data' = recordUrl(body.data, url, "failed")
                    /\ processedUrls' = processedUrls \cup {url}
                    /\ NextUrl
                    /\ UNCHANGED attempt
               [] body.result = "throw" /\ ShouldRetry(kind, o, attempt, options.retryAttempts) ->
                    /\ attempt' = attempt + 1
                    /\ data' = body.data
                    /\ UNCHANGED <<stats, processedUrls, pc, ui>>
               [] body.result = "throw" /\ ~ShouldRetry(kind, o, attempt, options.retryAttempts) ->
                    LET r == recordError(body.data,
                                         IndexerErrorData("URL_PROCESSING_ERROR", url), RunClock)
                    IN IF r.threw
                         THEN /\ stats' = [stats EXCEPT !.urlsFailed = @ + 1,
                                                        !.urlsProcessed = @ + 1]
                              /\ data' = r.data
                              /\ pc' = "catch"
                              /\ UNCHANGED <<processedUrls, ui, attempt>>
                         ELSE /\ stats' = [stats EXCEPT !.urlsFailed = @ + 1,
                                                        !.urlsProcessed = @ + 1,
                                                        !.errors = @ + 1]
                              /\ data' = recordUrl(r.data, url, "failed")
                              /\ NextUrl
                              /\ UNCHANGED <<processedUrls, attempt>>
  /\ UNCHANGED <<trackerVars, sideVars, kind, options, links, usePlaywright, urls, content, batches, bi, breached>>

\* processBatches: after a batch, the budget check, then the delay before the next batch
processBatches ==
  /\ pc = "budget"
  /\ IF stats.totalCost > options.costBudget
       THEN /\ breached' = TRUE
            /\ pc' = "report"
            /\ UNCHANGED <<bi, ui>>
       ELSE IF bi < Len(batches)
              THEN /\ bi' = bi + 1
                   /\ ui' = 1
                   /\ pc' = "url"
                   /\ UNCHANGED breached
              ELSE /\ pc' = "report"
                   /\ UNCHANGED <<bi, ui, breached>>
  /\ UNCHANGED <<trackerVars, sideVars, kind, options, links, usePlaywright, urls, content, batches, attempt,
                 stats, processedUrls, data, embedCalls, indexCalls, tries>>

\* SimpleScraper.scrapeAllSources: every scraped page contributes one content item
\* per chunk; a page that fails or is too short contributes none.
RECURSIVE ItemsOf(_, _)
ItemsOf(f, u) ==
  IF u > NumUrls THEN <<>>
  ELSE [i \in 1..f[u] |-> u] \o ItemsOf(f, u + 1)

\* executePhase1, fallback branch: scrapeAllSources and urls = [...new Set(...)]
scrapeAllSources ==
  /\ pc = "scrape"
  /\ \E f \in [Urls -> 0..MaxChunks] :
       /\ content' = ItemsOf(f, 1)
       /\ urls' = UniqueLinks(content')
       /\ pc' = IF content' = <<>> THEN "report" ELSE "fallback"
  /\ ui' = 1
  /\ UNCHANGED <<trackerVars, sideVars, kind, options, links, usePlaywright, batches, bi, attempt, stats,
                 processedUrls, data, embedCalls, indexCalls, tries, breached>>

\* executePhase1, fallback branch: one iteration of `for (const item of content)`
fallbackItem ==
  /\ pc = "fallback"
  /\ \E o \in (IF options.testMode THEN {"ok"}
                                   ELSE {"ok", "embedThrows", "embedEmpty", "storeThrows"}) :
       LET url == content[ui]
           paid == ~options.testMode
           more == ui < Len(content)
       IN /\ embedCalls' = embedCalls + createEmbeddings(options.testMode, 1).paidCalls
          /\ indexCalls' = [indexCalls EXCEPT ![url] =
                              IF paid /\ o = "ok" THEN @ + 1 ELSE @]
          /\ IF o \in {"embedThrows", "storeThrows"}
               THEN /\ data' = recordError(data, IndexerErrorData(ErrorTypeOf(o), url), RunClock).data
                    /\ pc' = "catch"
                    /\ UNCHANGED <<stats, ui>>
               ELSE /\ stats' = IF o = "ok"
                                  THEN [stats EXCEPT !.chunksCreated = @ + 1,
                                                     !.totalCost = @ + estimateCost(1),
                                                     !.urlsSuccessful = @ + 1,
                                                     !.urlsProcessed = @ + 1]
                                  ELSE [stats EXCEPT !.urlsFailed = @ + 1,
                                                     !.urlsProcessed = @ + 1]
                    /\ ui' = IF more THEN ui + 1 ELSE ui
                    /\ pc' = IF more THEN "fallback" ELSE "report"
                    /\ UNCHANGED data
  /\ UNCHANGED <<trackerVars, sideVars, kind, options, links, usePlaywright, urls, content, batches, bi, attempt,
                 processedUrls, tries, breached>>

\* generateFinalReport: generateSummary, exportToHTML and exportToCSV, each export
\* running generateProgressReport and so generateErrorsTable
generateFinalReport ==
  /\ pc = "report"
  /\ data' = generateErrorsTable(data)
  /\ pc' = "done"
  /\ UNCHANGED <<trackerVars, sideVars, kind, options, links, usePlaywright, urls, content, batches, bi, ui,
                 attempt, stats, processedUrls, embedCalls, indexCalls, tries,
                 breached>>

\* executePhase1's catch: reporter.recordError({... errorType: 'PHASE_1_FAILURE' ...})
\* and `throw error`; the promise rejects either way
phase1Catch ==
  /\ pc = "catch"
  /\ data' = recordError(data, IndexerErrorData("PHASE_1_FAILURE", 0), RunClock).data
  /\ pc' = "rejected"
  /\ UNCHANGED <<trackerVars, sideVars, kind, options, links, usePlaywright, urls, content, batches, bi, ui,
                 attempt, stats, processedUrls, embedCalls, indexCalls, tries,
                 breached>>

Next ==
  \/ StartSession
  \/ LaunchBrowser
  \/ discoverPhase1Urls
  \/ BeginUrl
  \/ processUrl
  \/ processBatches
  \/ scrapeAllSources
  \/ fallbackItem
  \/ generateFinalReport
  \/ phase1Catch


\* An external signal: whoever holds the session record the run created sets its
\* status to paused or cancelled while the batches are being processed.
signalSession ==
  /\ pc \in {"url", "attempt", "budget"}
  /\ data.sessions # <<>>
  /\ data.sessions[1].status = "running"
  /\ \E st \in {"paused", "cancelled"} :
       data' = [data EXCEPT !.sessions[1].status = st]
  /\ UNCHANGED <<trackerVars, sideVars, kind, options, links, pc, usePlaywright, urls, content,
                 batches, bi, ui, attempt, stats, processedUrls, embedCalls, indexCalls,
                 tries, breached>>

\* one indexing run with the external signal
NextSignalled ==
  \/ StartSession
  \/ LaunchBrowser
  \/ discoverPhase1Urls
  \/ BeginUrl
  \/ processUrl
  \/ processBatches
  \/ scrapeAllSources
  \/ fallbackItem
  \/ generateFinalReport
  \/ phase1Catch
  \/ signalSession


\* --------------------------------------------------- IndexingTracker

TrackerUrls == 1..NumTrackerUrls
Sources == {"guimera.info", "blogs"}

\* the session object built by startIndexingSession
NewSession(sourceKey, t) ==
  [sourceKey |-> sourceKey, startTime |-> t, endTime |-> NoTime, status |-> "running",
   discoveredUrls |-> {}, queuedUrls |-> {}, processedUrls |-> {},
   failedUrls |-> <<>>, skippedUrls |-> {}, indexedPages |-> {},
   stats |-> [pagesDiscovered |-> 0, pagesProcessed |-> 0, pagesIndexed |-> 0,
              pagesFailed |-> 0, pagesSkipped |-> 0, chunksCreated |-> 0,
              errorsEncountered |-> 0],
   errors |-> <<>>]

\* recordDiscoveredUrls, the loop without its `has` test: every url counts as new
RECURSIVE DiscoverAllFrom(_, _, _)
DiscoverAllFrom(session, list, i) ==
  IF i > Len(list) THEN session
  ELSE DiscoverAllFrom(
         [session EXCEPT !.discoveredUrls = @ \cup {list[i]},
                         !.queuedUrls = @ \cup {list[i]},
                         !.stats.pagesDiscovered = @ + 1],
         list, i + 1)

\* recordDiscoveredUrls: for (const url of urls) if (!discoveredUrls.has(url)) {...};
\* pagesDiscovered += newUrls.length
RECURSIVE DiscoverFrom(_, _, _)
DiscoverFrom(session, list, i) ==
  IF i > Len(list) THEN session
  ELSE IF list[i] \in session.discoveredUrls
         THEN DiscoverFrom(session, list, i + 1)
         ELSE DiscoverFrom(
                [session EXCEPT !.discoveredUrls = @ \cup {list[i]},
                                !.queuedUrls = @ \cup {list[i]},
                                !.stats.pagesDiscovered = @ + 1],
                list, i + 1)

DiscoverWithoutHas(session, list) == DiscoverAllFrom(session, list, 1)

trackerRecordDiscoveredUrls(session, list) == DiscoverFrom(session, list, 1)

\* Map.prototype.set on a map kept as a function
MapSet(m, k, v) == [x \in DOMAIN m \cup {k} |-> IF x = k THEN v ELSE m[x]]

\* updateGlobalStats(session)
updateGlobalStats(g, session) ==
  [g EXCEPT !.totalPagesIndexed = @ + session.stats.pagesIndexed,
            !.totalPagesFailed = @ + session.stats.pagesFailed,
            !.totalChunksCreated = @ + session.stats.chunksCreated,
            !.sourcesProgress[session.sourceKey] =
               [sessions |-> @.sessions + 1,
                totalPages |-> @.totalPages + session.stats.pagesIndexed]]

TrackerInit ==
  /\ tracker = [sessions |-> <<>>,
                globalStats |-> [totalPagesDiscovered |-> 0, totalPagesIndexed |-> 0,
                                 totalPagesFailed |-> 0, totalChunksCreated |-> 0,
                                 sourcesProgress |->
                                   [s \in Sources |-> [sessions |-> 0, totalPages |-> 0]]],
                currentSession |-> NoSession]
  /\ tenv = [clock |-> 0, calls |-> 0, rediscovered |-> {}]

SessionIds == DOMAIN tracker.sessions

Called == tenv' = [tenv EXCEPT !.calls = @ + 1]

\* startIndexingSession(sourceKey): sessionId = `${sourceKey}_${Date.now()}`
startIndexingSession ==
  /\ tenv.calls < MaxTrackerCalls
  /\ \E sourceKey \in Sources, tick \in 0..1 :
       LET t == tenv.clock + tick
           sessionId == <<sourceKey, t>>
       IN /\ tracker' = [tracker EXCEPT
                           !.sessions = MapSet(@, sessionId, NewSession(sourceKey, t)),
                           !.currentSession = sessionId]
          /\ tenv' = [tenv EXCEPT !.calls = @ + 1, !.clock = t]
  /\ UNCHANGED <<indexerVars, sideVars>>

\* endIndexingSession(sessionId, status)
endIndexingSession ==
  /\ tenv.calls < MaxTrackerCalls
  /\ \E sessionId \in SessionIds, status \in {"completed", "failed", "paused"},
        tick \in 0..1 :
       LET t == tenv.clock + tick
           session == [tracker.sessions[sessionId] EXCEPT !.endTime = t, !.status = status]
       IN /\ tracker' = [tracker EXCEPT
                           !.sessions[sessionId] = session,
                           !.globalStats = updateGlobalStats(@, session),
                           !.currentSession = IF @ = sessionId THEN NoSession ELSE @]
          /\ tenv' = [tenv EXCEPT !.calls = @ + 1, !.clock = t]
  /\ UNCHANGED <<indexerVars, sideVars>>

\* recordDiscoveredUrls(sessionId, urls)
recordDiscoveredUrls ==
  /\ tenv.calls < MaxTrackerCalls
  /\ \E sessionId \in SessionIds, list \in BoundedSeq(TrackerUrls, MaxDiscoverLen) :
       /\ tracker' = [tracker EXCEPT !.sessions[sessionId] =
                                       trackerRecordDiscoveredUrls(@, list)]
       /\ tenv' = [tenv EXCEPT
                     !.calls = @ + 1,
                     !.rediscovered = @ \cup
                        {<<sessionId, list[i]>> : i \in
                           {j \in 1..Len(list) :
                              \/ list[j] \in tracker.sessions[sessionId].discoveredUrls
                              \/ \E k \in 1..(j - 1) : list[k] = list[j]}}]
  /\ UNCHANGED <<indexerVars, sideVars>>

\* recordProcessingStart(sessionId, url)
recordProcessingStart ==
  /\ tenv.calls < MaxTrackerCalls
  /\ \E sessionId \in SessionIds, url \in TrackerUrls :
       tracker' = [tracker EXCEPT !.sessions[sessionId].queuedUrls = @ \ {url}]
  /\ Called
  /\ UNCHANGED <<indexerVars, sideVars>>

\* recordProcessingSuccess(sessionId, url, result)
recordProcessingSuccess ==
  /\ tenv.calls < MaxTrackerCalls
  /\ \E sessionId \in SessionIds, url \in TrackerUrls, chunks \in 1..MaxChunks :
       tracker' = [tracker EXCEPT !.sessions[sessionId] =
                     [@ EXCEPT !.processedUrls = @ \cup {url},
                               !.indexedPages = @ \cup {url},
                               !.stats.pagesProcessed = @ + 1,
                               !.stats.pagesIndexed = @ + 1,
                               !.stats.chunksCreated = @ + chunks]]
  /\ Called
  /\ UNCHANGED <<indexerVars, sideVars>>

\* recordProcessingFailure(sessionId, url, error, attempt)
recordProcessingFailure ==
  /\ tenv.calls < MaxTrackerCalls
  /\ \E sessionId \in SessionIds, url \in TrackerUrls, att \in 1..MaxRetryAttempts :
       tracker' = [tracker EXCEPT !.sessions[sessionId] =
                     [@ EXCEPT !.processedUrls = @ \cup {url},
                               !.failedUrls = MapSet(@, url, att),
                               !.stats.pagesProcessed = @ + 1,
                               !.stats.pagesFailed = @ + 1,
                               !.stats.errorsEncountered = @ + 1,
                               !.errors = Append(@, [url |-> url, attempt |-> att])]]
  /\ Called
  /\ UNCHANGED <<indexerVars, sideVars>>

\* recordSkippedUrl(sessionId, url, reason)
recordSkippedUrl ==
  /\ tenv.calls < MaxTrackerCalls
  /\ \E sessionId \in SessionIds, url \in TrackerUrls :
       tracker' = [tracker EXCEPT !.sessions[sessionId] =
                     [@ EXCEPT !.queuedUrls = @ \ {url},
                               !.skippedUrls = @ \cup {url},
                               !.stats.pagesSkipped = @ + 1]]
  /\ Called
  /\ UNCHANGED <<indexerVars, sideVars>>

NextTracker ==
  \/ startIndexingSession
  \/ endIndexingSession
  \/ recordDiscoveredUrls
  \/ recordProcessingStart
  \/ recordProcessingSuccess
  \/ recordProcessingFailure
  \/ recordSkippedUrl

\* --------------------------------------------------- the vector store

\* the id prefix of the vectors each indexer class builds
IdPrefix(k) == IF k = "progressive" THEN "guimera-p1" ELSE "guimera-firecrawl"

\* chunks.map((chunk, i) => ({ id: `guimera-p1-${Date.now()}-${i}`, ... })): the ids
\* of the n vectors built at time t
VectorIds(k, t, n) == {<<IdPrefix(k), t, i>> : i \in 0..(n - 1)}

\* index.upsert(vectors): an entry with a known id is overwritten, any other is added
upsert(index, ids, url) ==
  [id \in DOMAIN index \cup ids |-> IF id \in ids THEN url ELSE index[id]]

\* the stored entries whose metadata.url is u
EntriesOf(u) == {id \in DOMAIN pinecone : pinecone[id] = u}

StoreInit ==
  /\ pinecone = <<>>
  /\ senv = [clock |-> 0, calls |-> [u \in Urls |-> 0], pages |-> [u \in Urls |-> 1]]

\* indexChunks(chunks, embeddings, content, url), called once per run for a url:
\* senv.pages[url] is the number of chunks the page splits into, the same in every
\* run; Date.now() is the time of the previous call or later.
indexChunks ==
  /\ \E url \in Urls, tick \in 0..1 :
       /\ senv.calls[url] < MaxRuns
       /\ LET t == senv.clock + tick
          IN /\ pinecone' = IF options.testMode
                              THEN pinecone
                              ELSE upsert(pinecone, VectorIds(kind, t, senv.pages[url]), url)
             /\ senv' = [senv EXCEPT !.clock = t, !.calls[url] = @ + 1]
  /\ UNCHANGED <<indexerVars, trackerVars, triggerVars, qaVars, extraVars>>

NextStore == indexChunks


\* --------------------------------------------------- the session-start trigger

\* JSON null, which a destructuring default does not replace (kept apart from
\* every page count)
Null == 0 - 1

\* the maxPages values a request body can carry
TriggerPages == (1..MaxTriggerPages) \cup {Null}

\* Math.ceil(maxPages / 4); null converts to 0
estimatedDuration(maxPages) ==
  IF maxPages = Null THEN 0 ELSE (maxPages + PagesPerMinute - 1) \div PagesPerMinute

NoResponse == [code |-> 0]

\* res.json({ success, indexingId, message, estimatedDuration, status: 'running' })
RunningResponse(indexingId, maxPages) ==
  [code |-> 200, indexingId |-> indexingId,
   estimatedDuration |-> estimatedDuration(maxPages), status |-> "running"]

\* analyticsData.contentUpdates.find(u => u.id === id): index of the first match, 0 if none
FindUpdate(updates, id) ==
  IF \E i \in 1..Len(updates) : updates[i].id = id
    THEN CHOOSE i \in 1..Len(updates) :
           updates[i].id = id /\ \A k \in 1..(i - 1) : updates[k].id # id
    ELSE 0

\* updateRecord.status = ...; updateRecord.endTime = ... on the record found, if any
CloseUpdate(updates, id, status, t) ==
  IF FindUpdate(updates, id) = 0 THEN updates
  ELSE [updates EXCEPT ![FindUpdate(updates, id)] = [@ EXCEPT !.status = status, !.endTime = t]]

TriggerInit ==
  /\ server = [route |-> "admin", up |-> TRUE, clock |-> 0, contentUpdates |-> <<>>]
  /\ jobs = <<>>

\* POST /content/progressive-index, the handler up to its return: the job is logged
\* (admin-routes.js only), the response is sent, the background task is scheduled
\* with setImmediate. (postProgressiveIndexAwaiting is the handler that answers only
\* when the run is over.)
postProgressiveIndexAwaiting ==
  /\ server.up
  /\ Len(jobs) < MaxTriggers
  /\ \E maxPages \in TriggerPages, tick \in 0..1,
        authorized \in (IF server.route = "enhanced" THEN BOOLEAN ELSE {TRUE}) :
       LET t == server.clock + tick
       IN IF ~authorized
            THEN /\ jobs' = Append(jobs, [id |-> NoTime, maxPages |-> maxPages,
                                          response |-> [code |-> 401],
                                          stage |-> "unauthorized", exit |-> NoTime])
                 /\ UNCHANGED server
            ELSE /\ jobs' = Append(jobs, [id |-> t, maxPages |-> maxPages,
                                          response |-> NoResponse,
                                          stage |-> "responded", exit |-> NoTime])
                 /\ server' = [server EXCEPT
                                 !.clock = t,
                                 !.contentUpdates =
                                    IF server.route = "admin"
                                      THEN Append(@, [id |-> t, status |-> "running",
                                                      endTime |-> NoTime, maxPages |-> maxPages])
                                      ELSE @]
  /\ UNCHANGED <<indexerVars, trackerVars, storeVars, qaVars, extraVars>>

postProgressiveIndex ==
  /\ server.up
  /\ Len(jobs) < MaxTriggers
  /\ \E maxPages \in TriggerPages, tick \in 0..1,
        authorized \in (IF server.route = "enhanced" THEN BOOLEAN ELSE {TRUE}) :
       LET t == server.clock + tick
       IN IF ~authorized
            THEN /\ jobs' = Append(jobs, [id |-> NoTime, maxPages |-> maxPages,
                                          response |-> [code |-> 401],
                                          stage |-> "unauthorized", exit |-> NoTime])
                 /\ UNCHANGED server
            ELSE /\ jobs' = Append(jobs, [id |-> t, maxPages |-> maxPages,
                                          response |-> RunningResponse(t, maxPages),
                                          stage |-> "responded", exit |-> NoTime])
                 /\ server' = [server EXCEPT
                                 !.clock = t,
                                 !.contentUpdates =
                                    IF server.route = "admin"
                                      THEN Append(@, [id |-> t, status |-> "running",
                                                      endTime |-> NoTime, maxPages |-> maxPages])
                                      ELSE @]
  /\ UNCHANGED <<indexerVars, trackerVars, storeVars, qaVars, extraVars>>

\* The setImmediate callback: spawn('node', [indexerScript], { env: { MAX_PAGES:
\* maxPages.toString() } }) inside try/catch. The call returns a running child,
\* or throws (maxPages.toString() on null, or spawn itself), or returns a child
\* that could not be started and will emit 'error'.
backgroundTask ==
  /\ server.up
  /\ \E j \in 1..Len(jobs), launch \in {"spawned", "errorPending", "startFailed"} :
       /\ jobs[j].stage = "responded"
       /\ jobs[j].maxPages = Null => launch = "startFailed"
       /\ jobs' = [jobs EXCEPT ![j].stage = launch]
       /\ server' = IF launch = "startFailed" /\ server.route = "admin"
                      THEN [server EXCEPT !.contentUpdates =
                              CloseUpdate(@, jobs[j].id, "failed", server.clock)]
                      ELSE server
  /\ UNCHANGED <<indexerVars, trackerVars, storeVars, qaVars, extraVars>>

\* The child's 'error' event (the process could not be spawned): no listener is
\* registered for it, so the EventEmitter throws and the exception is uncaught.
childError ==
  /\ server.up
  /\ \E j \in 1..Len(jobs) :
       /\ jobs[j].stage = "errorPending"
       /\ jobs' = [jobs EXCEPT ![j].stage = "crashed"]
       /\ server' = [server EXCEPT !.up = FALSE]
  /\ UNCHANGED <<indexerVars, trackerVars, storeVars, qaVars, extraVars>>

\* indexingProcess.on('close', (code) => ...): main() exits with 1 when
\* executePhase1 rejects, with 0 otherwise
childClose ==
  /\ server.up
  /\ \E j \in 1..Len(jobs), code \in {0, 1} :
       /\ jobs[j].stage = "spawned"
       /\ jobs' = [jobs EXCEPT ![j].stage = "closed", ![j].exit = code]
       /\ server' = IF server.route = "admin"
                      THEN [server EXCEPT !.contentUpdates =
                              CloseUpdate(@, jobs[j].id,
                                          IF code = 0 THEN "completed" ELSE "failed",
                                          server.clock)]
                      ELSE server
  /\ UNCHANGED <<indexerVars, trackerVars, storeVars, qaVars, extraVars>>

NextTrigger ==
  \/ postProgressiveIndex
  \/ backgroundTask
  \/ childError
  \/ childClose

\* --------------------------------------------------- the QA validator

QaUrls == 1..NumQaUrls

\* A chunk's text, as the set of its lower-cased words (text.split(/\s+/) into a
\* Set): the empty text, a paragraph, the same paragraph less its last word, and a
\* paragraph that shares no word with them.
Texts == {{}, 1..NumWords, 1..(NumWords - 1), {NumWords + 1}}

\* obj.name || fallback, for a property the object may not have
Field(obj, name, fallback) == IF name \in DOMAIN obj THEN obj[name] ELSE fallback

\* the record verifyContentQuality pushes for a match: id, url, contentLength, ...
\* (the chunk's content itself is not among its properties)
VerificationRecord(match) ==
  [id |-> match.id, url |-> match.metadata.url,
   contentLength |-> Cardinality(Field(match.metadata, "content", {}))]

\* calculateContentSimilarity(chunk1, chunk2): Jaccard similarity of the word sets,
\* as the fraction num / den; 0 when either text is empty or missing
calculateContentSimilarity(chunk1, chunk2) ==
  LET words1 == Field(chunk1, "content", {})
      words2 == Field(chunk2, "content", {})
  IN IF words1 = {} \/ words2 = {}
       THEN [num |-> 0, den |-> 1]
       ELSE [num |-> Cardinality(words1 \cap words2), den |-> Cardinality(words1 \cup words2)]

\* similarity > this.thresholds.similarityThreshold
AboveThreshold(sim) == sim.num * 100 > SimilarityThresholdPct * sim.den

\* analyzeDuplication, the inner loop over j for one i
RECURSIVE DuplicatesOf(_, _, _, _)
DuplicatesOf(cv, i, j, acc) ==
  IF j > Len(cv) THEN acc
  ELSE IF j \in acc.processed THEN DuplicatesOf(cv, i, j + 1, acc)
  ELSE LET similarity == calculateContentSimilarity(cv[i], cv[j])
       IN IF AboveThreshold(similarity)
            THEN DuplicatesOf(cv, i, j + 1,
                   [duplicates |-> Append(acc.duplicates,
                                     [chunk1 |-> cv[i].id, chunk2 |-> cv[j].id,
                                      similarity |-> similarity,
                                      type |-> IF cv[i].url = cv[j].url THEN "same-page"
                                                                        ELSE "cross-page"]),
                    processed |-> acc.processed \cup {j}])
            ELSE DuplicatesOf(cv, i, j + 1, acc)

\* analyzeDuplication, the outer loop over i
RECURSIVE DuplicatesFrom(_, _, _)
DuplicatesFrom(cv, i, acc) ==
  IF i > Len(cv) THEN acc.duplicates
  ELSE IF i \in acc.processed THEN DuplicatesFrom(cv, i + 1, acc)
  ELSE DuplicatesFrom(cv, i + 1, DuplicatesOf(cv, i, i + 1, acc))

NoSummary == [duplicatePairs |-> 0 - 1]

\* this.results as the constructor leaves it (metadataQuality is not modelled)
EmptyResults ==
  [contentVerification |-> <<>>, deduplication |-> <<>>, searchTesting |-> <<>>,
   summary |-> NoSummary]

\* the validator's environment before the first runCompleteQA: the run number,
\* whether a run has returned its report and that report's content when it was
\* returned, the operations issued on the vector index, and for the run under
\* way the checks that ran and those in which a call failed
QaEnvInit ==
  [run |-> 1, returned |-> FALSE, report |-> EmptyResults, indexOps |-> {},
   ran |-> {}, failed |-> {}]

QAInit ==
  /\ matches = <<>>
  /\ results = EmptyResults
  /\ qpc = "idle"
  /\ qenv = QaEnvInit

Queries == 1..NumQueries

verifyContentQualityUpserting ==
  /\ qpc = "idle"
  /\ \E ok \in BOOLEAN :
       /\ qenv' = [qenv EXCEPT !.indexOps = @ \cup {"query", "upsert"},
                               !.ran = @ \cup {"content"},
                               !.failed = IF ok THEN @ ELSE @ \cup {"content"}]
       /\ IF ok
            THEN /\ results' = [results EXCEPT !.contentVerification =
                      @ \o [i \in 1..Len(matches) |-> VerificationRecord(matches[i])]]
                 /\ qpc' = "verified"
            ELSE /\ results' = results
                 /\ qpc' = "rejected"
  /\ UNCHANGED <<indexerVars, trackerVars, storeVars, triggerVars, extraVars, matches>>

\* verifyContentQuality: the sample query, then one record pushed per match; a
\* rejected query is caught nowhere but in runCompleteQA, which rethrows it
verifyContentQuality ==
  /\ qpc = "idle"
  /\ \E ok \in BOOLEAN :
       /\ qenv' = [qenv EXCEPT !.indexOps = @ \cup {"query"},
                               !.ran = @ \cup {"content"},
                               !.failed = IF ok THEN @ ELSE @ \cup {"content"}]
       /\ IF ok
            THEN /\ results' = [results EXCEPT !.contentVerification =
                      @ \o [i \in 1..Len(matches) |-> VerificationRecord(matches[i])]]
                 /\ qpc' = "verified"
            ELSE /\ results' = results
                 /\ qpc' = "rejected"
  /\ UNCHANGED <<indexerVars, trackerVars, storeVars, triggerVars, extraVars, matches>>

\* analyzeDuplication: this.results.deduplication = duplicates
analyzeDuplication ==
  /\ qpc = "verified"
  /\ results' = [results EXCEPT !.deduplication =
                   DuplicatesFrom(results.contentVerification, 1,
                                  [duplicates |-> <<>>, processed |-> {}])]
  /\ qpc' = "deduplicated"
  /\ qenv' = [qenv EXCEPT !.ran = @ \cup {"duplication"}]
  /\ UNCHANGED <<indexerVars, trackerVars, storeVars, triggerVars, extraVars, matches>>

\* validateMetadata: reads this.results.contentVerification and calls no service
validateMetadata ==
  /\ qpc = "deduplicated"
  /\ qpc' = "validated"
  /\ qenv' = [qenv EXCEPT !.ran = @ \cup {"metadata"}]
  /\ UNCHANGED <<indexerVars, trackerVars, storeVars, triggerVars, extraVars, matches, results>>

\* testSearchQuality: every query of the panel in its own try/catch; a query
\* whose embedding or index query fails is pushed with success: false
testSearchQuality ==
  /\ qpc = "validated"
  /\ \E succeeded \in [Queries -> BOOLEAN] :
       /\ results' = [results EXCEPT !.searchTesting =
                        [q \in Queries |-> [query |-> q, success |-> succeeded[q]]]]
       /\ qenv' = [qenv EXCEPT !.indexOps = @ \cup {"query"},
                               !.ran = @ \cup {"search"},
                               !.failed = IF \A q \in Queries : succeeded[q]
                                            THEN @ ELSE @ \cup {"search"}]
  /\ qpc' = "searched"
  /\ UNCHANGED <<indexerVars, trackerVars, storeVars, triggerVars, extraVars, matches>>

\* generateQASummary, the deduplication part: duplicateRate =
\* deduplication.length / (contentVerification.length / 2) * 100, kept as num / den
generateQASummary ==
  /\ qpc = "searched"
  /\ LET deduplication == results.deduplication
     IN results' = [results EXCEPT !.summary =
          [duplicatePairs |-> Len(deduplication),
           duplicateRate |-> [num |-> Len(deduplication) * 200,
                              den |-> Len(results.contentVerification)],
           samePageDuplicates |->
             Len(SelectSeq(deduplication, LAMBDA d : d.type = "same-page")),
           crossPageDuplicates |->
             Len(SelectSeq(deduplication, LAMBDA d : d.type = "cross-page"))]]
  /\ qpc' = "summarised"
  /\ qenv' = [qenv EXCEPT !.ran = @ \cup {"summary"}]
  /\ UNCHANGED <<indexerVars, trackerVars, storeVars, triggerVars, extraVars, matches>>

\* saveQAReport, then  return this.results ; a failing mkdir or writeFile rejects
\* the run
saveQAReport ==
  /\ qpc = "summarised"
  /\ \E ok \in BOOLEAN :
       IF ok
         THEN /\ qpc' = "returned"
              /\ qenv' = IF qenv.returned THEN qenv
                         ELSE [qenv EXCEPT !.returned = TRUE, !.report = results]
         ELSE /\ qpc' = "rejected"
              /\ qenv' = [qenv EXCEPT !.failed = @ \cup {"save"}]
  /\ UNCHANGED <<indexerVars, trackerVars, storeVars, triggerVars, extraVars, matches, results>>

\* runCompleteQA called again on the same validator
runCompleteQA ==
  /\ qpc \in {"returned", "rejected"}
  /\ qenv.run < MaxQaRuns
  /\ qpc' = "idle"
  /\ qenv' = [qenv EXCEPT !.run = @ + 1, !.ran = {}, !.failed = {}]
  /\ UNCHANGED <<indexerVars, trackerVars, storeVars, triggerVars, extraVars, matches, results>>

NextQA ==
  \/ verifyContentQuality
  \/ analyzeDuplication
  \/ validateMetadata
  \/ testSearchQuality
  \/ generateQASummary
  \/ saveQAReport
  \/ runCompleteQA

\* --------------------------------------------------- specifications

\* one indexing run (either indexer class), the tracker untouched
\* no function under study, the reporter API not driven, no earlier run of the
\* indexer, the scheduler as its constructor leaves it
ExtraInit ==
  /\ arg = 0
  /\ ret = 0
  /\ ppc = "ready"
  /\ renv = [clock |-> 0, calls |-> 0, reports |-> 0, exports |-> 0]
  /\ earlier = [runs |-> 0, indexed |-> {}]
  /\ scheduler = [isProcessing |-> FALSE, updateLog |-> <<>>, calls |-> <<>>]

SideInit == StoreInit /\ TriggerInit /\ QAInit /\ ExtraInit

Init == IndexerInit /\ TrackerInit /\ SideInit

Spec == Init /\ [][Next]_vars

\* the tracker driven through its API, no indexing run in progress
IndexerIdle ==
  /\ kind = "progressive"
  /\ IndexerInit
  /\ options = [maxPages |-> 1, batchSize |-> 1, retryAttempts |-> 1,
                costBudget |-> estimateCost(1), testMode |-> FALSE]
  /\ links = <<>>

InitTracker == IndexerIdle /\ TrackerInit /\ SideInit

\* one indexing run during which the session may be paused or cancelled from outside
SpecSignalled == Init /\ [][NextSignalled]_vars

SpecTracker == InitTracker /\ [][NextTracker]_vars

\* the vector store across runs: either indexer class, test mode or not, every
\* page with its own number of chunks
InitStore ==
  /\ IndexerInit
  /\ options.maxPages = 1 /\ options.batchSize = 1 /\ options.retryAttempts = 1
  /\ options.costBudget = estimateCost(1)
  /\ Len(links) = IF kind = "progressive" THEN 0 ELSE NumUrls
  /\ TrackerInit
  /\ pinecone = <<>>
  /\ senv \in [clock : {0}, calls : {[u \in Urls |-> 0]}, pages : [Urls -> 1..MaxChunks]]
  /\ TriggerInit
  /\ QAInit
  /\ ExtraInit

SpecStore == InitStore /\ [][NextStore]_vars

\* the trigger route of either server file, no indexing run modelled in this process
InitTrigger ==
  /\ IndexerIdle
  /\ TrackerInit
  /\ StoreInit
  /\ server \in [route : {"admin", "enhanced"}, up : {TRUE}, clock : {0},
                 contentUpdates : {<<>>}]
  /\ jobs = <<>>
  /\ QAInit
  /\ ExtraInit

SpecTrigger == InitTrigger /\ [][NextTrigger]_vars

\* one QA run over a sample of at most MaxSample chunks of the index
InitQA ==
  /\ IndexerIdle
  /\ TrackerInit
  /\ StoreInit
  /\ TriggerInit
  /\ \E k \in 0..MaxSample :
       \E us \in [1..k -> QaUrls], ts \in [1..k -> Texts] :
         matches = [i \in 1..k |-> [id |-> i, metadata |-> [url |-> us[i], content |-> ts[i]]]]
  /\ results = EmptyResults
  /\ qpc = "idle"
  /\ qenv = QaEnvInit
  /\ ExtraInit

SpecQA == InitQA /\ [][NextQA]_vars





\* --------------------------------------------------- properties

Range(s) == {s[i] : i \in 1..Len(s)}

Last(s) == s[Len(s)]

\* the statuses recorded for url u, oldest first
StatusPath(u) ==
  LET recs == SelectSeq(data.urls, LAMBDA r : r.url = u)
  IN [i \in 1..Len(recs) |-> recs[i].status]

LatestStatus(u) == IF StatusPath(u) = <<>> THEN "none" ELSE Last(StatusPath(u))

TerminalStatuses == {"indexed", "failed", "skipped"}

\* the run has left processUrl for the url in tries
ProcessingOver == tries.url # 0 /\ pc # "attempt"

AllFailed(log) == log # <<>> /\ \A i \in 1..Len(log) : log[i] # "ok"

\* the run went through the batch loop (Playwright or Firecrawl), not the fallback
BatchPath == kind = "firecrawl" \/ usePlaywright

\* C1: a URL whose processing fails on every attempt is tried exactly
\* retryAttempts times and then ends in status failed.
RetryCeiling ==
  (ProcessingOver /\ AllFailed(tries.log))
    => /\ Len(tries.log) = options.retryAttempts
       /\ LatestStatus(tries.url) = "failed"

\* C2: once the run is over, the cumulative cost exceeds the budget by at most
\* the cost of one batch, whichever path indexed the content.
BudgetEnforcement ==
  pc = "done"
    => stats.totalCost <= options.costBudget + options.batchSize * estimateCost(MaxChunks)

\* C3: a failure while processing one URL never aborts the batch or the session:
\* when the run ends without a budget breach, every URL of the frontier has been
\* processed to a final status.
FailureIsolation ==
  (pc \in {"done", "rejected"} /\ BatchPath /\ ~breached)
    => \A u \in Range(urls) : LatestStatus(u) \in TerminalStatuses

\* C4: a page whose extracted text is too short ends in status skipped, is not
\* failed and is not counted as an error.
ShortPageSkipped ==
  (ProcessingOver /\ tries.log # <<>> /\ \A i \in 1..Len(tries.log) : tries.log[i] = "short")
    => /\ LatestStatus(tries.url) = "skipped"
       /\ stats.urlsFailed = 0

\* C5: every failure occurrence is in the error log, with the URL and the number
\* of the attempt on which it happened.
FailuresRecorded ==
  \A i \in 1..Len(tries.log) :
    tries.log[i] # "ok"
      => \E e \in Range(data.errors) : e.url = tries.url /\ e.attempt = i

\* C6: within one session no URL is indexed more than once, on any path.
IndexedAtMostOnce == \A u \in Urls : indexCalls[u] <= 1

\* C7: discovering the same URL two or more times within a session, in one call
\* or in several, leaves exactly one record of it: the session's discovered set
\* holds it once and pagesDiscovered counts it once.
DiscoverDedup ==
  \A sid \in SessionIds :
    LET session == tracker.sessions[sid]
    IN /\ session.stats.pagesDiscovered = Cardinality(session.discoveredUrls)
       /\ session.queuedUrls \subseteq session.discoveredUrls

\* C7 witness: a URL was handed to recordDiscoveredUrls again and the session
\* still counts one discovered page.
RediscoveredOnce ==
  \E p \in tenv.rediscovered :
    /\ p[1] \in SessionIds
    /\ tracker.sessions[p[1]].discoveredUrls = {p[2]}
    /\ tracker.sessions[p[1]].stats.pagesDiscovered = 1

StatusRank(st) ==
  CASE st = "discovered" -> 1
    [] st = "queued" -> 2
    [] st = "processing" -> 3
    [] OTHER -> 4

ForwardMove(a, b) ==
  \/ StatusRank(a) < StatusRank(b)
  \/ (a = "processing" /\ b = "queued")

\* C8: a URL's status only moves forward (the one backward move being the retry,
\* processing to queued), and once the attempts are used up the URL is failed.
StatusMonotone ==
  /\ \A u \in Urls :
       \A i \in 1..(Len(StatusPath(u)) - 1) : ForwardMove(StatusPath(u)[i], StatusPath(u)[i + 1])
  /\ (ProcessingOver /\ AllFailed(tries.log) /\ Len(tries.log) >= options.retryAttempts)
       => LatestStatus(tries.url) = "failed"

BudgetBreachClosesSession ==
  (breached /\ pc = "done")
    => \A i \in 1..Len(data.sessions) : data.sessions[i].status \in {"paused", "failed"}

\* the run is over: executePhase1 / executeFirecrawlIndexing returned or rejected
RunOver == pc \in {"done", "rejected"}

\* C11: when the run has ended, or failed fatally, every session recorded at its
\* start has left status running for completed, failed or paused and has an end time.
SessionClosedAtEnd ==
  RunOver
    => \A i \in 1..Len(data.sessions) :
         /\ data.sessions[i].status \in {"completed", "failed", "paused"}
         /\ data.sessions[i].endTime # NoTime

\* C12: re-indexing a URL creates no duplicate entries: however often the
\* pipeline has indexed a URL, the store holds at most one entry per chunk of its page.
IdempotentUpsert ==
  \A u \in Urls : Cardinality(EntriesOf(u)) <= senv.pages[u]

\* the session the run created has been paused or cancelled from outside
Signalled ==
  /\ data.sessions # <<>>
  /\ data.sessions[1].status \in {"paused", "cancelled"}

\* C13: once the session is paused or cancelled, the orchestrator starts no
\* further URL: no step taken between two URLs hands the next URL to processUrl.
StopsWhenSignalled ==
  [][(Signalled /\ pc = "url") => pc' # "attempt"]_vars

\* the URLs whose latest recorded status is processing
InProcessing == {u \in Urls : LatestStatus(u) = "processing"}

\* C14: URL processing is strictly sequential: at most one URL is in processing,
\* it is the URL handed to processUrl, and between two URLs none is in processing.
StrictlySequential ==
  /\ Cardinality(InProcessing) <= 1
  /\ InProcessing \subseteq {tries.url}
  /\ pc = "attempt" => InProcessing = {batches[bi][ui]}
  /\ pc \in {"url", "budget"} => InProcessing = {}

\* C14 witness: the second URL of the frontier is in processing, all its
\* predecessor's attempts being over.
SecondUrlAfterFirst ==
  /\ Len(urls) >= 2
  /\ pc = "attempt"
  /\ InProcessing = {urls[2]}
  /\ LatestStatus(urls[1]) = "indexed"

\* the URLs handed to processUrl, in the order their processing started
StartOrder ==
  LET recs == SelectSeq(data.urls, LAMBDA r : r.status = "processing")
  IN [i \in 1..Len(recs) |-> recs[i].url]

\* C15: URLs start processing in frontier order: of two URLs that were both
\* started, the one discovered first was started first.
FrontierOrder ==
  \A i, j \in 1..Len(StartOrder) :
    i < j => /\ IndexOf(urls, StartOrder[i]) > 0
             /\ IndexOf(urls, StartOrder[i]) < IndexOf(urls, StartOrder[j])

\* C15 witness: two URLs were started, the second one in a later batch.
StartedAcrossBatches ==
  /\ Len(StartOrder) = 2
  /\ StartOrder[1] # StartOrder[2]
  /\ bi = 2

\* the stages of a job whose background task has run
BackgroundStages == {"spawned", "errorPending", "startFailed", "closed", "crashed"}

\* C16: the trigger answers at once: every accepted request has its response, an
\* id, an estimated duration and status running, from the handler's own step, so
\* before the background task has run and whatever becomes of the run.
RespondsBeforeRun ==
  \A j \in 1..Len(jobs) :
    jobs[j].stage # "unauthorized"
      => /\ jobs[j].response = RunningResponse(jobs[j].id, jobs[j].maxPages)
         /\ jobs[j].response.status = "running"

\* C16 witness: a request was answered and its background task has not run yet,
\* while an earlier request's run is over.
AnsweredWhileRunPending ==
  \E i, j \in 1..Len(jobs) :
    /\ jobs[i].stage = "closed"
    /\ jobs[j].stage = "responded"
    /\ jobs[j].response.code = 200

\* C17: no failure of the background run, a failure to launch it included, takes
\* the server process down or turns the request's response into an error.
ServerSurvivesRunFailure ==
  /\ server.up
  /\ \A j \in 1..Len(jobs) :
       jobs[j].stage \in BackgroundStages => jobs[j].response.code = 200

\* C18: the frontier of a session never holds more URLs than maxPages, whichever
\* discovery path filled it.
DiscoveryCapped == Len(urls) <= options.maxPages

\* the word set of the i-th sampled chunk
TextOf(i) == matches[i].metadata.content

\* the j-th sampled chunk is the second chunk of a flagged pair
FlaggedAsDuplicate(j) ==
  \E d \in Range(results.deduplication) :
    d.chunk2 = matches[j].id /\ AboveThreshold(d.similarity)

\* C19: after the deduplication analysis, a sampled chunk whose text is identical
\* to an earlier sampled chunk's is in a flagged pair with similarity above the
\* threshold, and no pair of chunks with disjoint vocabularies is flagged.
DuplicateDetection ==
  qpc \in {"deduplicated", "summarised"}
    => \A i, j \in 1..Len(matches) :
         i < j =>
           /\ (TextOf(i) # {} /\ TextOf(i) = TextOf(j)) => FlaggedAsDuplicate(j)
           /\ (TextOf(i) \cap TextOf(j) = {})
                => ~\E d \in Range(results.deduplication) :
                      d.chunk1 = matches[i].id /\ d.chunk2 = matches[j].id

\* the sample is one page chunked into 3 near-identical paragraphs
ThreeNearIdentical ==
  /\ Len(matches) = 3
  /\ \A i, j \in 1..3 :
       /\ matches[i].metadata.url = matches[j].metadata.url
       /\ AboveThreshold(calculateContentSimilarity(matches[i].metadata, matches[j].metadata))

\* C20: QA over one page chunked into 3 near-identical paragraphs reports at
\* least 2 flagged pairs, all of them same-page, and a duplicateRate built from them.
NearIdenticalSamePage ==
  (qpc = "summarised" /\ ThreeNearIdentical)
    => /\ results.summary.duplicatePairs >= 2
       /\ results.summary.samePageDuplicates = results.summary.duplicatePairs
       /\ results.summary.duplicateRate.num = 200 * results.summary.duplicatePairs
       /\ \A d \in Range(results.deduplication) : d.type = "same-page"

\* --------------------------------------------------- the content quality score
\* A chunk as assessContentQuality reads it: of the content only its length, its
\* number of whitespace-separated words, of distinct words, of words longer
\* than three characters that are not numbers, and of pieces between sentence
\* marks; of the title its length (0: none); the number of headings; the
\* language tag ("": none).  A missing and an empty content are both falsy.
Contents ==
  {[present |-> FALSE, length |-> 0, words |-> 1, uniqueWords |-> 1,
    meaningfulWords |-> 0, sentences |-> 1]} \cup
  [present : {TRUE},
   length : {MinChunkLength - 1, MinChunkLength, MaxChunkLength, MaxChunkLength + 1},
   words : 1..MaxWordCount,
   uniqueWords : 1..MaxWordCount,
   meaningfulWords : 0..MaxWordCount,
   sentences : 1..MaxSentences]

QaChunks ==
  {c \in [fn : {"assessContentQuality"}, content : Contents, titleLength : {0, 9, 10},
          headings : 0..1, language : {"", "unknown", "ca"}] :
     /\ c.content.uniqueWords <= c.content.words
     /\ c.content.meaningfulWords <= c.content.words}

\* one check of assessContentQuality: the issue is pushed and the score
\* decremented when the check is violated
Check(acc, violated, issue, tenths) ==
  IF violated
  THEN [score |-> acc.score - tenths, issues |-> Append(acc.issues, issue)]
  ELSE acc

\* assessContentQuality up to the return statement; the score in tenths
assessChecks(chunk) ==
  LET c == chunk.content
      s0 == [score |-> FullScore, issues |-> <<>>]
      s1 == Check(s0, ~c.present \/ c.length < MinChunkLength, "Content too short", 3)
      s2 == Check(s1, c.present /\ c.length > MaxChunkLength, "Content too long", 2)
      s3 == Check(s2, c.present /\ c.uniqueWords * 10 < 3 * c.words,
                  "Highly repetitive content", 3)
      s4 == Check(s3, c.present /\ c.meaningfulWords * 10 < 4 * c.words,
                  "Low meaningful content ratio", 2)
      s5 == Check(s4, c.present /\ c.length < 10 * c.sentences,
                  "Very short sentences, possibly fragmented content", 1)
      s6 == Check(s5, chunk.titleLength < 10, "Missing or poor title", 1)
      s7 == Check(s6, chunk.headings = 0, "No structural headings found", 1)
  IN  Check(s7, chunk.language \in {"", "unknown"}, "Language not detected", 1)

assessContentQualityUnfloored(chunk) == assessChecks(chunk)

\* assessContentQuality: score: Math.max(0, score)
assessContentQuality(chunk) ==
  [assessChecks(chunk) EXCEPT !.score = IF @ < 0 THEN 0 ELSE @]

\* the call  await this.assessContentQuality(chunk)
callAssessContentQuality ==
  /\ ppc = "ready"
  /\ arg.fn = "assessContentQuality"
  /\ ret' = assessContentQuality(arg)
  /\ ppc' = "returned"
  /\ UNCHANGED <<indexerVars, trackerVars, storeVars, triggerVars, qaVars, arg, renv, earlier,
                 scheduler>>

\* C21: the quality score of a chunk lies between 0 and 1.0 (here 0 and 10
\* tenths) and is 1.0 exactly when no check was violated, that is when no issue
\* was recorded.
QualityScoreRange ==
  (ppc = "returned" /\ arg.fn = "assessContentQuality") =>
    /\ ret.score \in 0..FullScore
    /\ (ret.score = FullScore) <=> (ret.issues = <<>>)

\* a chunk whose decrements add up to more than 1.0 has been scored
QualityScoreFloored ==
  /\ ppc = "returned"
  /\ arg.fn = "assessContentQuality"
  /\ ret.score = 0
  /\ Len(ret.issues) >= 7

\* --------------------------------------------------- QA run properties
QaChecks == {"content", "duplication", "metadata", "search", "summary"}

\* C22: a failure in one check of runCompleteQA does not abort the others: when
\* the call is over every check has run and the summary was generated, whatever
\* failed on the way; and the relevance panel records a failed query as such.
FailureDoesNotAbortChecks ==
  /\ (qpc \in {"returned", "rejected"} /\ "save" \notin qenv.failed) => qenv.ran = QaChecks
  /\ "search" \in qenv.ran =>
       ("search" \in qenv.failed <=> \E q \in Queries : ~results.searchTesting[q].success)

\* C23: the report a runCompleteQA call returned never changes afterwards,
\* a later runCompleteQA call on the same validator included.  (The object
\* returned is this.results itself; qenv.report is what it held when returned.)
ReportImmutable ==
  qenv.returned => results = qenv.report

\* C24: the validator never mutates the vector index: no step of a QA run
\* changes what the index holds, and the only operation issued on it is query.
IndexOnlyQueried ==
  [][/\ matches' = matches
     /\ qenv'.indexOps \subseteq {"query"}]_vars

\* a complete QA run over a non-empty index has returned its report
QaRunReturned ==
  /\ qpc = "returned"
  /\ Len(matches) > 0
  /\ qenv.ran = QaChecks
  /\ "query" \in qenv.indexOps

\* --------------------------------------------------- the overall QA status
\* A number of generateQASummary as the quotient num / den in hundredths:
\* den = 0 is the quotient 0 / 0 of an empty sample or of a panel without a
\* successful query, NaN.
NaN == [num |-> 0, den |-> 0]

\* x >= hundredths / 100 and x < hundredths / 100 ; both false for NaN
GreaterEq(x, hundredths) == x.den > 0 /\ x.num * 100 >= hundredths * x.den
Less(x, hundredths) == x.den > 0 /\ x.num * 100 < hundredths * x.den

\* average quality and average relevance around the thresholds 0.6, 0.7, 0.8 and
\* 0.5, 0.6, 0.7; the duplicate rate in percent around 5, 10, 20
SummaryValues ==
  [fn : {"determineOverallStatus"},
   avgQuality : {NaN} \cup [num : {0, 59, 60, 69, 70, 79, 80, 100}, den : {100}],
   duplicateRate : {NaN} \cup [num : {0, 499, 500, 999, 1000, 1999, 2000, 20000}, den : {100}],
   avgSearchRelevance : {NaN} \cup [num : {0, 49, 50, 59, 60, 69, 70, 100}, den : {100}]]

determineOverallStatusNegated(avgQuality, duplicateRate, avgSearchRelevance) ==
  IF ~Less(avgQuality, 80) /\ ~GreaterEq(duplicateRate, 500)
       /\ ~Less(avgSearchRelevance, 70)
    THEN "Excellent"
  ELSE IF ~Less(avgQuality, 70) /\ ~GreaterEq(duplicateRate, 1000)
            /\ ~Less(avgSearchRelevance, 60)
    THEN "Good"
  ELSE IF ~Less(avgQuality, 60) /\ ~GreaterEq(duplicateRate, 2000)
            /\ ~Less(avgSearchRelevance, 50)
    THEN "Acceptable"
  ELSE "Needs Improvement"

determineOverallStatus(avgQuality, duplicateRate, avgSearchRelevance) ==
  IF GreaterEq(avgQuality, 80) /\ Less(duplicateRate, 500)
       /\ GreaterEq(avgSearchRelevance, 70)
    THEN "Excellent"
  ELSE IF GreaterEq(avgQuality, 70) /\ Less(duplicateRate, 1000)
            /\ GreaterEq(avgSearchRelevance, 60)
    THEN "Good"
  ELSE IF GreaterEq(avgQuality, 60) /\ Less(duplicateRate, 2000)
            /\ GreaterEq(avgSearchRelevance, 50)
    THEN "Acceptable"
  ELSE "Needs Improvement"

\* generateQASummary: overallStatus: this.determineOverallStatus(avgQuality,
\* duplicateRate, avgSearchRelevance)
callDetermineOverallStatus ==
  /\ ppc = "ready"
  /\ arg.fn = "determineOverallStatus"
  /\ ret' = determineOverallStatus(arg.avgQuality, arg.duplicateRate,
                                   arg.avgSearchRelevance)
  /\ ppc' = "returned"
  /\ UNCHANGED <<indexerVars, trackerVars, storeVars, triggerVars, qaVars, arg, renv, earlier,
                 scheduler>>

\* the three values are all at least as good as a tier's thresholds
Meets(a, quality, rate, relevance) ==
  /\ a.avgQuality.num * 100 >= quality * a.avgQuality.den
  /\ a.duplicateRate.num * 100 < rate * a.duplicateRate.den
  /\ a.avgSearchRelevance.num * 100 >= relevance * a.avgSearchRelevance.den

HasNaN(a) == NaN \in {a.avgQuality, a.duplicateRate, a.avgSearchRelevance}

\* C25: for every average quality, duplicate rate and average relevance, those of
\* an empty sample or of a panel without a successful query (NaN) included, the
\* overall status is one of the four, the best tier whose three thresholds are
\* all met.
OverallStatusByThresholds ==
  (ppc = "returned" /\ arg.fn = "determineOverallStatus") =>
    /\ ret \in {"Excellent", "Good", "Acceptable", "Needs Improvement"}
    /\ HasNaN(arg) => ret = "Needs Improvement"
    /\ ~HasNaN(arg) =>
         /\ ret = "Excellent" <=> Meets(arg, 80, 500, 70)
         /\ ret = "Good" <=> (Meets(arg, 70, 1000, 60) /\ ~Meets(arg, 80, 500, 70))
         /\ ret = "Acceptable" <=> (Meets(arg, 60, 2000, 50) /\ ~Meets(arg, 70, 1000, 60))

\* the status of an empty sample has been determined
EmptySampleStatus ==
  /\ ppc = "returned"
  /\ arg.fn = "determineOverallStatus"
  /\ arg.avgQuality = NaN
  /\ arg.duplicateRate = NaN
  /\ ret = "Needs Improvement"

\* --------------------------------------------------- the reporter's API
\* A client of SimpleIndexingReporter (the indexers, the monitoring routes)
\* records sessions, URLs and errors and asks for reports, in any order.

\* what no method of the reporter touches
reporterFrame ==
  <<trackerVars, storeVars, triggerVars, qaVars, pureVars, earlier, scheduler, kind, options,
    links,
    pc, usePlaywright, urls, content, batches, bi, ui, attempt, stats, processedUrls,
    embedCalls, indexCalls, tries, breached>>

\* await reporter.recordSession(sessionData)
reporterRecordSession ==
  /\ renv.calls < MaxReporterCalls
  /\ data' = recordSession(data, [sessionId |-> SessionId, status |-> "running",
                                  endTime |-> NoTime])
  /\ renv' = [renv EXCEPT !.calls = @ + 1]
  /\ UNCHANGED reporterFrame

\* await reporter.recordUrl(urlData)
reporterRecordUrl ==
  /\ renv.calls < MaxReporterCalls
  /\ \E u \in Urls, status \in {"indexed", "failed"} :
       data' = recordUrl(data, u, status)
  /\ renv' = [renv EXCEPT !.calls = @ + 1]
  /\ UNCHANGED reporterFrame

\* await reporter.recordError(errorData), by a caller that gives the `error`
\* field recordError reads or by one that does not; the timestamp is new Date(),
\* the same millisecond as the call before or a later one
reporterRecordError ==
  /\ renv.calls < MaxReporterCalls
  /\ \E u \in Urls, withError \in BOOLEAN, tick \in 0..1 :
       LET t == renv.clock + tick
           errorData == IF withError THEN [url |-> u, error |-> {"timeout"}]
                                     ELSE IndexerErrorData("URL_PROCESSING_ERROR", u)
       IN /\ data' = recordError(data, errorData, t).data
          /\ renv' = [renv EXCEPT !.clock = t, !.calls = @ + 1]
  /\ UNCHANGED reporterFrame

\* SimpleIndexingReporter.generateProgressReport: generateSummary,
\* generateSessionsTable, generateQueueTable, generateActivityTable and
\* generatePerformanceTable read this.data (they filter or map before they sort);
\* generateErrorsTable sorts this.data.errors itself
generateProgressReport ==
  /\ renv.calls < MaxReporterCalls
  /\ data' = generateErrorsTable(data)
  /\ renv' = [renv EXCEPT !.calls = @ + 1, !.reports = @ + 1]
  /\ UNCHANGED reporterFrame

\* exportToCSV, exportToJSON, exportToHTML: generateProgressReport, then the
\* report is written to a file
exportReport ==
  /\ renv.calls < MaxReporterCalls
  /\ \E format \in {"csv", "json", "html"} :
       data' = generateErrorsTable(data)
  /\ renv' = [renv EXCEPT !.calls = @ + 1, !.reports = @ + 1, !.exports = @ + 1]
  /\ UNCHANGED reporterFrame

NextReporter ==
  \/ reporterRecordSession
  \/ reporterRecordUrl
  \/ reporterRecordError
  \/ generateProgressReport
  \/ exportReport

InitReporter ==
  /\ IndexerIdle
  /\ TrackerInit
  /\ SideInit

SpecReporter == InitReporter /\ [][NextReporter]_vars

\* C26: the error log is append-only: every step leaves the records already in
\* the log where they are and as they are, and removes none.
ErrorLogAppendOnly ==
  [][/\ Len(data'.errors) >= Len(data.errors)
     /\ SubSeq(data'.errors, 1, Len(data.errors)) = data.errors]_vars

\* C27: reports are a read-only projection: a step that generates or exports a
\* report leaves the recorded sessions, URL records and error records as they were.
ReportsReadOnly ==
  [][renv'.reports > renv.reports => data' = data]_vars

\* C28: with testMode set a run never calls the paid embedding service, and
\* createEmbeddings gives every chunk the all-zero vector of the fixed
\* dimension, one vector per chunk.
TestModeNeverPaysForEmbeddings ==
  options.testMode =>
    /\ embedCalls = 0
    /\ \A n \in 0..MaxChunks :
         LET embeddings == createEmbeddings(options.testMode, n).embeddings
         IN /\ Len(embeddings) = n
            /\ \A i \in 1..n : embeddings[i] = ZeroVector

\* a run in test mode has embedded and indexed a page and is over
TestModeRunIndexedPage ==
  /\ options.testMode
  /\ pc = "done"
  /\ stats.urlsSuccessful >= 1
  /\ stats.chunksCreated >= 1

\* --------------------------------------------------- a re-run of the indexer
\* The script is started again on the same site with the same options (main,
\* or the trigger's spawn): a new process, in which main constructs a new
\* ProgressiveIndexer or FirecrawlIndexer; the constructor creates the reporter's
\* data, the stats and processedUrls empty and reads nothing an earlier run left.
rerun ==
  /\ RunOver
  /\ earlier.runs + 1 < MaxRuns
  /\ earlier' = [runs |-> earlier.runs + 1,
                  indexed |-> earlier.indexed \cup
                    {data.urls[i].url :
                       i \in {j \in 1..Len(data.urls) : data.urls[j].status = "indexed"}}]
  /\ pc' = "start"
  /\ usePlaywright' = TRUE
  /\ urls' = <<>>
  /\ content' = <<>>
  /\ batches' = <<>>
  /\ bi' = 1
  /\ ui' = 1
  /\ attempt' = 1
  /\ stats' = [urlsDiscovered |-> 0, urlsProcessed |-> 0, urlsSuccessful |-> 0,
               urlsFailed |-> 0, chunksCreated |-> 0, totalCost |-> 0, errors |-> 0]
  /\ processedUrls' = {}
  /\ data' = [sessions |-> <<>>, urls |-> <<>>, errors |-> <<>>]
  /\ tries' = [url |-> 0, log |-> <<>>]
  /\ breached' = FALSE
  /\ embedCalls' = 0
  /\ indexCalls' = [u \in Urls |-> 0]
  /\ UNCHANGED <<trackerVars, storeVars, triggerVars, qaVars, pureVars, renv, scheduler, kind, options,
                 links>>

NextRerun ==
  \/ StartSession
  \/ LaunchBrowser
  \/ discoverPhase1Urls
  \/ BeginUrl
  \/ processUrl
  \/ processBatches
  \/ scrapeAllSources
  \/ fallbackItem
  \/ generateFinalReport
  \/ phase1Catch
  \/ rerun

SpecRerun == Init /\ [][NextRerun]_vars

\* C29: the orchestrator is resumable: a run never starts processing a URL that
\* an earlier run already brought to status indexed.
IndexedSkippedOnRerun ==
  \A i \in 1..Len(data.urls) :
    data.urls[i].status = "processing" => data.urls[i].url \notin earlier.indexed

\* --------------------------------------------------- createBatches as configured
\* The batch size a run is configured with: a number when the indexer is
\* constructed by a program (testPhase1: batchSize: 5), the string of the
\* environment variable when main constructs it
\* (batchSize: process.env.PHASE1_BATCH_SIZE || 25).
\* The frontier is a sequence of distinct URLs in the order of discovery.
BatchInputs ==
  [fn : {"createBatches"},
   array : {[i \in 1..k |-> i] : k \in 0..MaxFrontier},
   batchSize : [fromEnv : BOOLEAN, value : 1..MaxBatchSize]]

\* the number of decimal digits of n
RECURSIVE Digits(_)
Digits(n) == IF n < 10 THEN 1 ELSE 1 + Digits(n \div 10)

RECURSIVE Pow10(_)
Pow10(k) == IF k = 0 THEN 1 ELSE 10 * Pow10(k - 1)

\* i + batchSize for a string batchSize: the concatenation of the two decimal
\* texts (0 + "2" is "02", "02" + "2" is "022"), as the number that array.slice
\* and the comparison i < array.length read it as
StringPlus(i, batchSize) == i * Pow10(Digits(batchSize)) + batchSize

\* createBatches(array, batchSize) with a string batchSize; i is the value of
\* the loop variable
RECURSIVE createBatchesFromString(_, _, _)
createBatchesFromString(array, batchSize, i) ==
  IF i >= Len(array) THEN <<>>
  ELSE <<SubSeq(array, i + 1, Min(StringPlus(i, batchSize), Len(array)))>>
         \o createBatchesFromString(array, batchSize, StringPlus(i, batchSize))

\* processBatches: this.createBatches(urls, this.options.batchSize)
callCreateBatches ==
  /\ ppc = "ready"
  /\ arg.fn = "createBatches"
  /\ ret' = IF arg.batchSize.fromEnv
              THEN createBatchesFromString(arg.array, arg.batchSize.value, 0)
              ELSE createBatches(arg.array, arg.batchSize.value)
  /\ ppc' = "returned"
  /\ UNCHANGED <<indexerVars, trackerVars, storeVars, triggerVars, qaVars, arg, renv, earlier,
                 scheduler>>

\* --------------------------------------------------- the wait before a retry

\* processUrl's catch: await this.delay(2000 * attempt) before attempt + 1
retryDelay(att) == RetryBaseDelayMs * att

\* processUrl for a URL whose every attempt throws: the waits before the
\* retries 2 .. retryAttempts, in order
callRetryDelays ==
  /\ ppc = "ready"
  /\ arg.fn = "retryDelay"
  /\ ret' = [att \in 1..(arg.retryAttempts - 1) |-> retryDelay(att)]
  /\ ppc' = "returned"
  /\ UNCHANGED <<indexerVars, trackerVars, storeVars, triggerVars, qaVars, arg, renv, earlier,
                 scheduler>>

\* --------------------------------------------------- the page cap of a triggered run

\* main() and the constructor: maxPages: process.env.PHASE1_MAX_PAGES || 100,
\* then options.maxPages || 100; an unset variable is Null
mainMaxPages(env) ==
  IF env.PHASE1_MAX_PAGES = Null THEN DefaultMaxPages ELSE env.PHASE1_MAX_PAGES

\* the background task of the trigger and the child it starts:
\* spawn('node', [indexerScript], { env: { ...process.env, MAX_PAGES: maxPages.toString() } }),
\* and in the child main() building the indexer; the result is the child's options.maxPages
callSpawnIndexer ==
  /\ ppc = "ready"
  /\ arg.fn = "spawnIndexer"
  /\ ret' = mainMaxPages([arg.processEnv EXCEPT !.MAX_PAGES = arg.maxPages])
  /\ ppc' = "returned"
  /\ UNCHANGED <<indexerVars, trackerVars, storeVars, triggerVars, qaVars, arg, renv, earlier,
                 scheduler>>

\* --------------------------------------------------- functions under study
\* A function is applied once to an argument drawn from its input set.
NextPure ==
  \/ callAssessContentQuality
  \/ callDetermineOverallStatus
  \/ callCreateBatches
  \/ callRetryDelays
  \/ callSpawnIndexer

InitPure ==
  /\ IndexerIdle
  /\ TrackerInit
  /\ StoreInit
  /\ TriggerInit
  /\ QAInit
  /\ renv = [clock |-> 0, calls |-> 0, reports |-> 0, exports |-> 0]
  /\ earlier = [runs |-> 0, indexed |-> {}]
  /\ scheduler = [isProcessing |-> FALSE, updateLog |-> <<>>, calls |-> <<>>]
  /\ arg \in QaChunks \cup SummaryValues \cup BatchInputs
             \cup [fn : {"retryDelay"}, retryAttempts : 1..MaxAttemptCeiling]
             \cup [fn : {"spawnIndexer"},
                   maxPages : (1..MaxTriggerPages) \cup {DefaultMaxPages},
                   processEnv : [MAX_PAGES : {Null},
                                 PHASE1_MAX_PAGES : (1..MaxTriggerPages) \cup {Null}]]
  /\ ret = 0
  /\ ppc = "ready"

SpecPure == InitPure /\ [][NextPure]_vars

\* the batches one after the other
RECURSIVE Concatenation(_)
Concatenation(bs) == IF bs = <<>> THEN <<>> ELSE Head(bs) \o Concatenation(Tail(bs))

\* C30: for every batch size a run can be configured with, createBatches
\* partitions the frontier into batches of that size: the batches in order make
\* up the frontier, none is empty, and all but the last hold batchSize URLs.
FixedSizePartition ==
  (ppc = "returned" /\ arg.fn = "createBatches") =>
    /\ Concatenation(ret) = arg.array
    /\ \A b \in 1..Len(ret) : Len(ret[b]) >= 1
    /\ \A b \in 1..(Len(ret) - 1) : Len(ret[b]) = arg.batchSize.value


\* --------------------------------------------------- tracker bookkeeping

\* C32: in the tracker each discovered URL of a session is at every moment in
\* exactly one state among queued, processing, indexed, failed and skipped
\* (processing being discovered and in none of the four collections): no URL is
\* at once queued and failed, indexed and failed, indexed and skipped, or in
\* any other two of the collections.
OneStatePerUrl ==
  \A id \in SessionIds :
    LET s == tracker.sessions[id]
    IN \A url \in s.discoveredUrls :
         Cardinality({c \in {"queued", "indexed", "failed", "skipped"} :
                        \/ c = "queued" /\ url \in s.queuedUrls
                        \/ c = "indexed" /\ url \in s.indexedPages
                        \/ c = "failed" /\ url \in DOMAIN s.failedUrls
                        \/ c = "skipped" /\ url \in s.skippedUrls}) <= 1

\* C33: after any sequence of record calls on a session each counter equals
\* the size of its URL collection: pagesDiscovered = |discoveredUrls|,
\* pagesIndexed = |indexedPages|, pagesFailed = |failedUrls|,
\* pagesSkipped = |skippedUrls| and pagesProcessed = |processedUrls|.
CountersMatchCollections ==
  \A id \in SessionIds :
    LET s == tracker.sessions[id]
    IN /\ s.stats.pagesDiscovered = Cardinality(s.discoveredUrls)
       /\ s.stats.pagesIndexed = Cardinality(s.indexedPages)
       /\ s.stats.pagesFailed = Cardinality(DOMAIN s.failedUrls)
       /\ s.stats.pagesSkipped = Cardinality(s.skippedUrls)
       /\ s.stats.pagesProcessed = Cardinality(s.processedUrls)

\* C35: the tracker's global totals (pages indexed, pages failed, chunks
\* created, sessions per source) equal the sums of the per-session counters
\* over the ended sessions, each ended session counted exactly once however
\* often endIndexingSession was called for it.
GlobalTotalsCountOnce ==
  LET ended == {id \in SessionIds : tracker.sessions[id].endTime # NoTime}
      RECURSIVE Sum(_, _)
      Sum(S, field) ==
        IF S = {} THEN 0
        ELSE LET id == CHOOSE x \in S : TRUE
             IN tracker.sessions[id].stats[field] + Sum(S \ {id}, field)
      g == tracker.globalStats
  IN /\ g.totalPagesIndexed = Sum(ended, "pagesIndexed")
     /\ g.totalPagesFailed = Sum(ended, "pagesFailed")
     /\ g.totalChunksCreated = Sum(ended, "chunksCreated")
     /\ \A src \in Sources :
          g.sourcesProgress[src].sessions =
            Cardinality({id \in ended : tracker.sessions[id].sourceKey = src})

\* getCurrentStatus(): idle when state.currentSession is unset, running otherwise
getCurrentStatus ==
  IF tracker.currentSession = NoSession THEN "idle" ELSE "running"

\* C38: getCurrentStatus agrees with the session table: it reports idle only
\* when no session has status running, and running only when its current
\* session has status running, for any interleaving of starts and ends.
StatusAgreesWithSessions ==
  /\ getCurrentStatus = "idle" =>
       \A id \in SessionIds : tracker.sessions[id].status # "running"
  /\ getCurrentStatus = "running" =>
       /\ tracker.currentSession \in SessionIds
       /\ tracker.sessions[tracker.currentSession].status = "running"

\* C31: the wait before each retry of a URL follows exponential backoff: the
\* delay before retry k+1 is a constant multiple, greater than 1, of the delay
\* before retry k (the same ratio between every two consecutive waits).
ExponentialBackoff ==
  (ppc = "returned" /\ arg.fn = "retryDelay") =>
    /\ \A k \in 1..(Len(ret) - 1) : ret[k + 1] > ret[k]
    /\ \A k, j \in 1..(Len(ret) - 1) : ret[k + 1] * ret[j] = ret[j + 1] * ret[k]

\* --------------------------------------------------- run statistics

\* C34: in the run statistics, whenever no URL is in processing,
\* urlsProcessed = urlsSuccessful + urlsFailed and urlsProcessed <= urlsDiscovered,
\* on every path by which a run handles URLs (browser or fallback scraper).
StatsConsistent ==
  InProcessing = {} =>
    /\ stats.urlsProcessed = stats.urlsSuccessful + stats.urlsFailed
    /\ stats.urlsProcessed <= stats.urlsDiscovered

\* --------------------------------------------------- the job log of the trigger

\* C36: every job record the admin trigger created with status running becomes
\* completed or failed once the background process has ended or could not be
\* started, and it is completed exactly when the process exited with code 0.
JobRecordSettled ==
  server.route = "admin" =>
    \A j \in 1..Len(jobs) :
      /\ jobs[j].stage \in {"closed", "startFailed", "crashed"} =>
           server.contentUpdates[j].status \in {"completed", "failed"}
      /\ server.contentUpdates[j].status = "completed" <=>
           (jobs[j].stage = "closed" /\ jobs[j].exit = 0)

\* C37: the maxPages value passed to the session-start trigger is the page cap
\* applied by the background run that the trigger launches.
TriggerCapApplied ==
  (ppc = "returned" /\ arg.fn = "spawnIndexer") => ret = arg.maxPages

\* --------------------------------------------------- the duplicate rate

\* C39: the duplicate rate reported in the QA summary is a percentage between
\* 0 and 100, for every sample and every set of flagged pairs.
DuplicateRateIsPercentage ==
  results.summary # NoSummary =>
    LET rate == results.summary.duplicateRate
    IN /\ rate.den > 0
       /\ 0 <= rate.num
       /\ rate.num <= 100 * rate.den

\* --------------------------------------------------- the scheduler's content update

\* performContentUpdate entered without the test of isProcessing
performContentUpdateUnguarded ==
  /\ Len(scheduler.calls) < MaxUpdateCalls
  /\ \E type \in {"incremental", "weekly", "full"}, constructed \in BOOLEAN :
       LET busy == \E c \in 1..Len(scheduler.calls) :
                     scheduler.calls[c].pc \in {"scraping", "storing", "alerting"}
           call == [type |-> type, arrivedBusy |-> busy, stored |-> FALSE]
       IN IF constructed
            THEN scheduler' = [scheduler EXCEPT
                   !.isProcessing = TRUE,
                   !.calls = Append(@, call @@ [pc |-> "scraping", scraped |-> TRUE])]
            ELSE scheduler' = [scheduler EXCEPT
                   !.isProcessing = TRUE,
                   !.updateLog = Append(@, [status |-> "failed", updateType |-> type]),
                   !.calls = Append(@, call @@ [pc |-> "alerting", scraped |-> FALSE])]
  /\ UNCHANGED <<indexerVars, trackerVars, storeVars, triggerVars, qaVars, pureVars, renv,
                 earlier>>

\* performContentUpdate(type), called by the weekly job ('weekly'), by
\* performFullRefresh ('full') or by triggerUpdate, up to its first await: return
\* at once if isProcessing; otherwise set it, build the scraper (which throws when
\* the RAG modules could not be loaded: logged as failed, then alertAdmins is
\* awaited) and start scraping
performContentUpdate ==
  /\ Len(scheduler.calls) < MaxUpdateCalls
  /\ \E type \in {"incremental", "weekly", "full"}, constructed \in BOOLEAN :
       LET busy == \E c \in 1..Len(scheduler.calls) :
                     scheduler.calls[c].pc \in {"scraping", "storing", "alerting"}
           call == [type |-> type, arrivedBusy |-> busy, stored |-> FALSE]
       IN IF scheduler.isProcessing
            THEN scheduler' = [scheduler EXCEPT
                   !.calls = Append(@, call @@ [pc |-> "skipped", scraped |-> FALSE])]
            ELSE IF constructed
            THEN scheduler' = [scheduler EXCEPT
                   !.isProcessing = TRUE,
                   !.calls = Append(@, call @@ [pc |-> "scraping", scraped |-> TRUE])]
            ELSE scheduler' = [scheduler EXCEPT
                   !.isProcessing = TRUE,
                   !.updateLog = Append(@, [status |-> "failed", updateType |-> type]),
                   !.calls = Append(@, call @@ [pc |-> "alerting", scraped |-> FALSE])]
  /\ UNCHANGED <<indexerVars, trackerVars, storeVars, triggerVars, qaVars, pureVars, renv,
                 earlier>>

\* the awaited scrapeUpdatedContent / scrapeAllSources settles: no content (return,
\* and finally clears isProcessing), content (the engine is built and
\* embedAndStore started) or a rejection (logged as failed, alertAdmins awaited)
scraperSettles ==
  /\ \E c \in 1..Len(scheduler.calls), outcome \in {"empty", "content", "throws"} :
       /\ scheduler.calls[c].pc = "scraping"
       /\ scheduler' =
            IF outcome = "empty"
              THEN [scheduler EXCEPT !.isProcessing = FALSE, !.calls[c].pc = "returned"]
            ELSE IF outcome = "content"
              THEN [scheduler EXCEPT !.calls[c].pc = "storing", !.calls[c].stored = TRUE]
            ELSE [scheduler EXCEPT
                    !.updateLog = Append(@, [status |-> "failed",
                                             updateType |-> scheduler.calls[c].type]),
                    !.calls[c].pc = "alerting"]
  /\ UNCHANGED <<indexerVars, trackerVars, storeVars, triggerVars, qaVars, pureVars, renv,
                 earlier>>

\* the awaited ragEngine.initialize() and embedAndStore(content) settle: the
\* update is logged as completed and finally clears isProcessing, or a rejection
\* is logged as failed and alertAdmins awaited
embedAndStore ==
  /\ \E c \in 1..Len(scheduler.calls), ok \in BOOLEAN :
       /\ scheduler.calls[c].pc = "storing"
       /\ scheduler' =
            IF ok
              THEN [scheduler EXCEPT
                      !.isProcessing = FALSE,
                      !.updateLog = Append(@, [status |-> "completed",
                                               updateType |-> scheduler.calls[c].type]),
                      !.calls[c].pc = "completed"]
              ELSE [scheduler EXCEPT
                      !.updateLog = Append(@, [status |-> "failed",
                                               updateType |-> scheduler.calls[c].type]),
                      !.calls[c].pc = "alerting"]
  /\ UNCHANGED <<indexerVars, trackerVars, storeVars, triggerVars, qaVars, pureVars, renv,
                 earlier>>

\* the awaited alertAdmins returns, then finally: this.isProcessing = false
alertAdmins ==
  /\ \E c \in 1..Len(scheduler.calls) :
       /\ scheduler.calls[c].pc = "alerting"
       /\ scheduler' = [scheduler EXCEPT !.isProcessing = FALSE, !.calls[c].pc = "failed"]
  /\ UNCHANGED <<indexerVars, trackerVars, storeVars, triggerVars, qaVars, pureVars, renv,
                 earlier>>

NextScheduler ==
  \/ performContentUpdate
  \/ scraperSettles
  \/ embedAndStore
  \/ alertAdmins

InitScheduler == IndexerIdle /\ TrackerInit /\ SideInit

SpecScheduler == InitScheduler /\ [][NextScheduler]_vars

\* C40: at most one content update executes at a time in the scheduler: a
\* performContentUpdate call (scheduled, manual or full refresh) that arrives
\* while another update is in progress returns without scraping or storing
\* anything.
OneUpdateAtATime ==
  /\ Cardinality({c \in 1..Len(scheduler.calls) :
                    scheduler.calls[c].pc \in {"scraping", "storing", "alerting"}}) <= 1
  /\ \A c \in 1..Len(scheduler.calls) :
       scheduler.calls[c].arrivedBusy =>
         /\ scheduler.calls[c].pc = "skipped"
         /\ ~scheduler.calls[c].scraped
         /\ ~scheduler.calls[c].stored

\* a call arrived while another update was storing its content, and returned
UpdateSkippedWhileBusy ==
  \E c, d \in 1..Len(scheduler.calls) :
    /\ scheduler.calls[c].arrivedBusy
    /\ scheduler.calls[c].pc = "skipped"
    /\ scheduler.calls[d].pc = "storing"

====
